---------------------------- MODULE Spec2Model ----------------------------
(***************************************************************************)
(* Model of the Kibana Terraform provider glue:                            *)
(*   - rawJsonEqual, the JSON diff suppressor        (alert rule resource) *)
(*   - deflateActions / flattenActions               (alert rule resource) *)
(*   - flattenConnectorTypes                  (connector types data source)*)
(*   - the Create / Read / Update / Delete handlers of the connector and   *)
(*     alert rule resources, run against a remote service.                 *)
(*                                                                         *)
(* JSON texts are sequences of one-character strings.  The decoder, the    *)
(* validity scanner and the compactor of encoding/json are modelled on the *)
(* alphabet below: objects, arrays, strings without escapes, non-negative  *)
(* decimal numbers without exponent, and the literals true/false/null.     *)
(***************************************************************************)
EXTENDS Integers, Sequences, FiniteSets, TLC

VARIABLES
    mode,        \* which part of the program this behaviour exercises
    pc,          \* position inside the exercised function / handler
    oldValue,    \* rawJsonEqual: argument oldValue (a JSON text)
    newValue,    \* rawJsonEqual: argument newValue (a JSON text)
    oldDoc,      \* the document oldValue was written from (ghost)
    newDoc,      \* the document newValue was written from (ghost)
    suppress,    \* rawJsonEqual: returned boolean
    actionArray, \* deflateActions: argument, the flat action records
    paramDocs,   \* the documents the records' params were written from (ghost)
    apiActions,  \* deflateActions: returned (actions, err)
    flattened,   \* flattenActions: returned (res, err)
    typesReply,  \* flattenConnectorTypes: argument, nil or the List reply
    types,       \* flattenConnectorTypes: returned list
    ds,          \* the data source's ResourceData and returned diagnostics
    kind,        \* the resource type managed: which handlers the host calls
    d,           \* the resource's ResourceData: id and field values
    remote,      \* the object the remote service holds, if any
    last,        \* the last handler invocation: its calls and what it returned
    given,       \* the rule_type_id and consumer given to the Create that made
                 \* the remote alert rule (ghost)
    inst,        \* concurrent handlers: each resource's ResourceData, the
                 \* position of its handler and the handler's local variables
    service,     \* concurrent handlers: the remote objects, by identifier
    alone,       \* the remote object of each resource as its own handlers
                 \* alone have made it (ghost)
    lastSetId    \* the identifier most recently passed to SetId by any
                 \* handler (ghost)

jsonVars == <<oldValue, newValue, oldDoc, newDoc, suppress>>
actionVars == <<actionArray, paramDocs, apiActions, flattened>>
typeVars == <<typesReply, types, ds>>

crudVars == <<kind, d, remote, last, given>>

concVars == <<inst, service, alone, lastSetId>>

vars == <<mode, pc, jsonVars, actionVars, typeVars, crudVars, concVars>>

-----------------------------------------------------------------------------
(* Characters *)

Q == "\""

Ws == {" ", "\t", "\n", "\r"}

Digits == {"0", "1", "2", "3", "4", "5", "6", "7", "8", "9"}

DigitVal(c) ==
    CASE c = "0" -> 0 [] c = "1" -> 1 [] c = "2" -> 2 [] c = "3" -> 3
      [] c = "4" -> 4 [] c = "5" -> 5 [] c = "6" -> 6 [] c = "7" -> 7
      [] c = "8" -> 8 [] c = "9" -> 9

-----------------------------------------------------------------------------
(* Decoded JSON values: what json.Unmarshal stores into an interface{}.     *)
(* Every value is a record of the same shape, so that two values of         *)
(* different kinds compare unequal instead of being incomparable:           *)
(*   k   "null" | "bool" | "num" | "str" | "arr" | "obj"                    *)
(*   n   <<mantissa, decimals>> of a float64 (or <<0|1, 0>> for a bool)     *)
(*   s   the characters of a string                                         *)
(*   a   the elements of a []interface{}                                    *)
(*   o   the entries of a map[string]interface{}: a set of <<key, value>>   *)

VNull == [k |-> "null", n |-> <<0, 0>>, s |-> <<>>, a |-> <<>>, o |-> {}]
VBool(b) == [k |-> "bool", n |-> <<IF b THEN 1 ELSE 0, 0>>, s |-> <<>>, a |-> <<>>, o |-> {}]
VNum(m, e) == [k |-> "num", n |-> <<m, e>>, s |-> <<>>, a |-> <<>>, o |-> {}]
VStr(cs) == [k |-> "str", n |-> <<0, 0>>, s |-> cs, a |-> <<>>, o |-> {}]
VArr(es) == [k |-> "arr", n |-> <<0, 0>>, s |-> <<>>, a |-> es, o |-> {}]
VObj(ms) == [k |-> "obj", n |-> <<0, 0>>, s |-> <<>>, a |-> <<>>, o |-> ms]

\* m[key] = v on a Go map: an earlier entry under the same key is replaced
MapPut(ms, key, v) == {p \in ms : p[1] # key} \cup {<<key, v>>}

-----------------------------------------------------------------------------
(* json.Unmarshal(text, &interface{}) *)

Fail == [ok |-> FALSE, pos |-> 0, val |-> VNull]
Ok(p, v) == [ok |-> TRUE, pos |-> p, val |-> v]

RECURSIVE SkipWs(_, _)
SkipWs(t, i) == IF i <= Len(t) /\ t[i] \in Ws THEN SkipWs(t, i + 1) ELSE i

RECURSIVE ScanDigits(_, _)
ScanDigits(t, i) == IF i <= Len(t) /\ t[i] \in Digits THEN ScanDigits(t, i + 1) ELSE i

RECURSIVE DigitsValue(_, _, _)
DigitsValue(t, i, j) ==
    IF j < i THEN 0 ELSE 10 * DigitsValue(t, i, j - 1) + DigitVal(t[j])

RECURSIVE Pow10(_)
Pow10(e) == IF e = 0 THEN 1 ELSE 10 * Pow10(e - 1)

\* the float64 a decimal denotes: trailing zeros of the fraction do not count
RECURSIVE Normalise(_, _)
Normalise(m, e) ==
    IF e > 0 /\ m % 10 = 0 THEN Normalise(m \div 10, e - 1) ELSE <<m, e>>

ParseNumber(t, i) ==
    LET intEnd == IF t[i] = "0" THEN i + 1 ELSE ScanDigits(t, i)
        int == DigitsValue(t, i, intEnd - 1)
    IN  IF intEnd <= Len(t) /\ t[intEnd] = "."
        THEN LET fracEnd == ScanDigits(t, intEnd + 1)
                 e == fracEnd - (intEnd + 1)
                 n == Normalise(int * Pow10(e) + DigitsValue(t, intEnd + 1, fracEnd - 1), e)
             IN  IF e = 0 THEN Fail ELSE Ok(fracEnd, VNum(n[1], n[2]))
        ELSE Ok(intEnd, VNum(int, 0))

RECURSIVE ScanString(_, _)
\* position of the closing quote, 0 when the string is not terminated or
\* holds a control character
ScanString(t, i) ==
    IF i > Len(t) THEN 0
    ELSE IF t[i] = Q THEN i
    ELSE IF t[i] \in {"\t", "\n", "\r"} THEN 0
    ELSE ScanString(t, i + 1)

ParseString(t, i) ==
    LET j == ScanString(t, i + 1)
    IN  IF j = 0 THEN Fail ELSE Ok(j + 1, VStr(SubSeq(t, i + 1, j - 1)))

Matches(t, i, word) ==
    /\ i + Len(word) - 1 <= Len(t)
    /\ SubSeq(t, i, i + Len(word) - 1) = word

ParseLiteral(t, i) ==
    IF Matches(t, i, <<"t", "r", "u", "e">>) THEN Ok(i + 4, VBool(TRUE))
    ELSE IF Matches(t, i, <<"f", "a", "l", "s", "e">>) THEN Ok(i + 5, VBool(FALSE))
    ELSE IF Matches(t, i, <<"n", "u", "l", "l">>) THEN Ok(i + 4, VNull)
    ELSE Fail

RECURSIVE ParseValue(_, _), ParseElems(_, _, _), ParseMembers(_, _, _)
\* i is the position of the value's first character
ParseValue(t, i) ==
    IF i > Len(t) THEN Fail
    ELSE IF t[i] = "{" THEN
        LET j == SkipWs(t, i + 1)
        IN  IF j <= Len(t) /\ t[j] = "}" THEN Ok(j + 1, VObj({}))
            ELSE ParseMembers(t, j, {})
    ELSE IF t[i] = "[" THEN
        LET j == SkipWs(t, i + 1)
        IN  IF j <= Len(t) /\ t[j] = "]" THEN Ok(j + 1, VArr(<<>>))
            ELSE ParseElems(t, j, <<>>)
    ELSE IF t[i] = Q THEN ParseString(t, i)
    ELSE IF t[i] \in Digits THEN ParseNumber(t, i)
    ELSE ParseLiteral(t, i)

ParseElems(t, i, acc) ==
    LET r == ParseValue(t, i)
    IN  IF ~r.ok THEN Fail
        ELSE LET j == SkipWs(t, r.pos)
                 acc2 == Append(acc, r.val)
             IN  IF j > Len(t) THEN Fail
                 ELSE IF t[j] = "," THEN ParseElems(t, SkipWs(t, j + 1), acc2)
                 ELSE IF t[j] = "]" THEN Ok(j + 1, VArr(acc2))
                 ELSE Fail

ParseMembers(t, i, acc) ==
    IF i > Len(t) \/ t[i] # Q THEN Fail
    ELSE LET key == ParseString(t, i)
         IN  IF ~key.ok THEN Fail
             ELSE LET c == SkipWs(t, key.pos)
                  IN  IF c > Len(t) \/ t[c] # ":" THEN Fail
                      ELSE LET r == ParseValue(t, SkipWs(t, c + 1))
                           IN  IF ~r.ok THEN Fail
                               ELSE LET j == SkipWs(t, r.pos)
                                        acc2 == MapPut(acc, key.val.s, r.val)
                                    IN  IF j > Len(t) THEN Fail
                                        ELSE IF t[j] = "," THEN ParseMembers(t, SkipWs(t, j + 1), acc2)
                                        ELSE IF t[j] = "}" THEN Ok(j + 1, VObj(acc2))
                                        ELSE Fail

\* [err, val]: err is TRUE when the text is not exactly one JSON value
Unmarshal(t) ==
    LET r == ParseValue(t, SkipWs(t, 1))
    IN  IF r.ok /\ SkipWs(t, r.pos) > Len(t)
        THEN [err |-> FALSE, val |-> r.val]
        ELSE [err |-> TRUE, val |-> VNull]

\* the scanner's verdict on a text (json.Valid, checkValid)
Valid(t) == ~Unmarshal(t).err

RECURSIVE CompactFrom(_, _, _)
\* json.Compact: the text without the whitespace that is outside strings
CompactFrom(t, i, inString) ==
    IF i > Len(t) THEN <<>>
    ELSE IF t[i] = Q THEN <<Q>> \o CompactFrom(t, i + 1, ~inString)
    ELSE IF ~inString /\ t[i] \in Ws THEN CompactFrom(t, i + 1, inString)
    ELSE <<t[i]>> \o CompactFrom(t, i + 1, inString)

MarshalStripAll(m) ==
    IF ~Valid(m) THEN [err |-> TRUE, text |-> <<>>]
    ELSE [err |-> FALSE, text |-> SelectSeq(m, LAMBDA c : c \notin Ws)]

\* json.Marshal of a non-nil json.RawMessage: the bytes are checked and
\* compacted, and an invalid text is an error
Marshal(m) ==
    IF ~Valid(m) THEN [err |-> TRUE, text |-> <<>>]
    ELSE [err |-> FALSE, text |-> CompactFrom(m, 1, FALSE)]

-----------------------------------------------------------------------------
(* The action converters of the alert rule resource *)

deflateActionsCompacting(actionArray_) ==
    [actions |-> [i \in 1..Len(actionArray_) |->
                    [Id |-> actionArray_[i].id,
                     Group |-> actionArray_[i].group,
                     Params |-> CompactFrom(actionArray_[i].params, 1, FALSE)]],
     err |-> FALSE]

\* one kbapi.KibanaAlertRuleAction per flat record, in order; Params holds
\* the bytes of the record's params string
deflateActions(actionArray_) ==
    [actions |-> [i \in 1..Len(actionArray_) |->
                    [Id |-> actionArray_[i].id,
                     Group |-> actionArray_[i].group,
                     Params |-> actionArray_[i].params]],
     err |-> FALSE]

RECURSIVE flattenFrom(_, _, _)
\* the loop of flattenActions from action i on, res holding the records
\* appended so far; a Marshal error ends it with (nil, err)
flattenFrom(actions, i, res) ==
    IF i > Len(actions) THEN [res |-> res, err |-> FALSE]
    ELSE LET a == actions[i]
             m == Marshal(a.Params)
         IN  IF m.err THEN [res |-> <<>>, err |-> TRUE]
             ELSE flattenFrom(actions, i + 1,
                      Append(res, [id |-> a.Id, group |-> a.Group, params |-> m.text]))

flattenActions(actions) == flattenFrom(actions, 1, <<>>)

-----------------------------------------------------------------------------
(* Errors and replies of the REST client *)

NoErr == [type |-> "none", code |-> 0]
APIError(code) == [type |-> "APIError", code |-> code]
\* an error value that is not a kbapi.APIError (transport, serialization)
OtherError == [type |-> "other", code |-> 0]

\* a remote call, with the identifier it names
Call(name, id) == <<name, id>>

\* what a handler invocation did and returned:
\*   d        the ResourceData when it ended
\*   diags    "ok" (nil), "error" (diag.FromErr(err)) or "panic"
\*   err      the error returned
\*   calls    the remote calls made, in order, each with the id it names
\*   failed   the remote call that answered with an error, callErr that
\*            error and idAtCall the local id when it was made
Outcome(d_, diags, err, calls, failed, callErr, idAtCall) ==
    [d |-> d_, diags |-> diags, err |-> err, calls |-> calls,
     failed |-> failed, callErr |-> callErr, idAtCall |-> idAtCall]

Done(d_, calls) == Outcome(d_, "ok", NoErr, calls, "", NoErr, "")

CallFailed(d_, call, err, id) == Outcome(d_, "error", err, <<Call(call, id)>>, call, err, id)

\* a local step (json.Marshal, d.Set) failed
LocalFailed(d_, calls) == Outcome(d_, "error", OtherError, calls, "", NoErr, "")

After(call, r) == [r EXCEPT !.calls = <<call>> \o @]

-----------------------------------------------------------------------------
(* The connector resource *)

\* resourceKibanaConnectorRead; get[id] is the client's answer to Get(id):
\* (nil, err), (nil, nil) when there is no such connector, or (connector, nil).
\* d.Set refuses a config whose values are not all strings.
\* Read that also writes the secrets of the object Get returned
resourceKibanaConnectorReadSetsSecrets(d_, get) ==
    LET reply == get[d_.id]
        connector == reply.obj
    IN  IF reply.err # NoErr THEN CallFailed(d_, "Get", reply.err, d_.id)
        ELSE IF reply.nil THEN Done([d_ EXCEPT !.id = ""], <<Call("Get", d_.id)>>)
        ELSE LET d1 == [d_ EXCEPT !.name = connector.Name,
                                  !.connector_type_id = connector.ConnectorTypeID,
                                  !.is_preconfigured = connector.IsPreconfigured,
                                  !.is_deprecated = connector.IsDeprecated,
                                  !.is_missing_secrets = connector.IsMissingSecrets,
                                  !.referenced_by_count = connector.ReferencedByCount,
                                  !.secrets = connector.Secrets]
             IN  IF connector.Config.nested THEN LocalFailed(d1, <<Call("Get", d_.id)>>)
                 ELSE Done([d1 EXCEPT !.config = connector.Config], <<Call("Get", d_.id)>>)

\* Read without the SetId("") of its not-found branch
resourceKibanaConnectorReadKeepId(d_, get) ==
    LET reply == get[d_.id]
        connector == reply.obj
    IN  IF reply.err # NoErr THEN CallFailed(d_, "Get", reply.err, d_.id)
        ELSE IF reply.nil THEN Done(d_, <<Call("Get", d_.id)>>)
        ELSE LET d1 == [d_ EXCEPT !.name = connector.Name,
                                  !.connector_type_id = connector.ConnectorTypeID,
                                  !.is_preconfigured = connector.IsPreconfigured,
                                  !.is_deprecated = connector.IsDeprecated,
                                  !.is_missing_secrets = connector.IsMissingSecrets,
                                  !.referenced_by_count = connector.ReferencedByCount]
             IN  IF connector.Config.nested THEN LocalFailed(d1, <<Call("Get", d_.id)>>)
                 ELSE Done([d1 EXCEPT !.config = connector.Config], <<Call("Get", d_.id)>>)

resourceKibanaConnectorRead(d_, get) ==
    LET reply == get[d_.id]
        connector == reply.obj
    IN  IF reply.err # NoErr THEN CallFailed(d_, "Get", reply.err, d_.id)
        ELSE IF reply.nil THEN Done([d_ EXCEPT !.id = ""], <<Call("Get", d_.id)>>)
        ELSE LET d1 == [d_ EXCEPT !.name = connector.Name,
                                  !.connector_type_id = connector.ConnectorTypeID,
                                  !.is_preconfigured = connector.IsPreconfigured,
                                  !.is_deprecated = connector.IsDeprecated,
                                  !.is_missing_secrets = connector.IsMissingSecrets,
                                  !.referenced_by_count = connector.ReferencedByCount]
             IN  IF connector.Config.nested THEN LocalFailed(d1, <<Call("Get", d_.id)>>)
                 ELSE Done([d1 EXCEPT !.config = connector.Config], <<Call("Get", d_.id)>>)

\* Create returning after SetId, without the Read
resourceKibanaConnectorCreateNoRead(d_, created, get) ==
    IF created.err # NoErr THEN CallFailed(d_, "Create", created.err, d_.id)
    ELSE Done([d_ EXCEPT !.id = created.obj.ID], <<Call("Create", "")>>)

\* resourceKibanaConnectorCreate; created is the client's answer to Create
resourceKibanaConnectorCreate(d_, created, get) ==
    IF created.err # NoErr THEN CallFailed(d_, "Create", created.err, d_.id)
    ELSE After(Call("Create", ""),
               resourceKibanaConnectorRead(
                   [d_ EXCEPT !.id = created.obj.ID, !.secrets = d_.secrets], get))

\* resourceKibanaConnectorUpdate; updated is the client's answer to Update
resourceKibanaConnectorUpdate(d_, updated, get) ==
    IF updated.err # NoErr THEN CallFailed(d_, "Update", updated.err, d_.id)
    ELSE After(Call("Update", d_.id),
               resourceKibanaConnectorRead(
                   [d_ EXCEPT !.id = updated.obj.ID, !.secrets = d_.secrets], get))

\* Delete without the branch for code 404
resourceKibanaConnectorDeleteStrict(d_, err) ==
    IF err # NoErr
    THEN IF err.type # "APIError"
         THEN Outcome(d_, "panic", NoErr, <<Call("Delete", d_.id)>>, "Delete", err, d_.id)
         ELSE CallFailed(d_, "Delete", err, d_.id)
    ELSE Done([d_ EXCEPT !.id = ""], <<Call("Delete", d_.id)>>)

\* resourceKibanaConnectorDelete; err is the client's answer to Delete.
\* err.(kbapi.APIError) panics on an error of another type.
resourceKibanaConnectorDelete(d_, err) ==
    IF err # NoErr
    THEN IF err.type # "APIError"
         THEN Outcome(d_, "panic", NoErr, <<Call("Delete", d_.id)>>, "Delete", err, d_.id)
         ELSE IF err.code = 404
         THEN Outcome([d_ EXCEPT !.id = ""], "ok", NoErr, <<Call("Delete", d_.id)>>, "Delete", err, d_.id)
         ELSE CallFailed(d_, "Delete", err, d_.id)
    ELSE Done([d_ EXCEPT !.id = ""], <<Call("Delete", d_.id)>>)

-----------------------------------------------------------------------------
(* The alert rule resource *)

\* the KibanaAlertRuleCreateParams that Create builds from the ResourceData
AlertRuleCreateParams(d_) ==
    [Name |-> d_.name, Consumer |-> d_.consumer, Throttle |-> d_.throttle,
     RuleTypeID |-> d_.rule_type_id, NotifyWhen |-> d_.notify_when,
     Enabled |-> d_.enabled, Tags |-> d_.tags,
     Schedule |-> [Interval |-> d_.schedule.interval],
     Params |-> d_.params,
     Actions |-> deflateActions(d_.actions).actions]

\* update parameters that also carry the rule type and the consumer
AlertRuleUpdateParamsWithType(d_) ==
    [Name |-> d_.name, Consumer |-> d_.consumer, Throttle |-> d_.throttle,
     RuleTypeID |-> d_.rule_type_id, NotifyWhen |-> d_.notify_when,
     Tags |-> d_.tags,
     Schedule |-> [Interval |-> d_.schedule.interval],
     Params |-> d_.params,
     Actions |-> deflateActions(d_.actions).actions]

\* the KibanaAlertRuleUpdateParams that Update builds from the ResourceData
AlertRuleUpdateParams(d_) ==
    [Name |-> d_.name, Throttle |-> d_.throttle, NotifyWhen |-> d_.notify_when,
     Tags |-> d_.tags,
     Schedule |-> [Interval |-> d_.schedule.interval],
     Params |-> d_.params,
     Actions |-> deflateActions(d_.actions).actions]

\* resourceKibanaAlertRuleRead; get[id] is the client's answer to Get(id)
resourceKibanaAlertRuleRead(d_, get) ==
    LET reply == get[d_.id]
        alert_rule == reply.obj
    IN  IF reply.err # NoErr THEN CallFailed(d_, "Get", reply.err, d_.id)
        ELSE IF reply.nil THEN Done([d_ EXCEPT !.id = ""], <<Call("Get", d_.id)>>)
        ELSE LET d1 == [d_ EXCEPT !.name = alert_rule.Name,
                                  !.tags = alert_rule.Tags,
                                  !.consumer = alert_rule.Consumer,
                                  !.enabled = alert_rule.Enabled,
                                  !.rule_type_id = alert_rule.RuleTypeID,
                                  !.schedule = [interval |-> alert_rule.Schedule.Interval],
                                  !.throttle = alert_rule.Throttle,
                                  !.notify_when = alert_rule.NotifyWhen]
                 paramsBytes == Marshal(alert_rule.Params)
                 d2 == [d1 EXCEPT !.params = paramsBytes.text]
                 flattenedActions == flattenActions(alert_rule.Actions)
             IN  IF paramsBytes.err THEN LocalFailed(d1, <<Call("Get", d_.id)>>)
                 ELSE IF flattenedActions.err THEN LocalFailed(d2, <<Call("Get", d_.id)>>)
                 ELSE Done([d2 EXCEPT !.actions = flattenedActions.res], <<Call("Get", d_.id)>>)

\* resourceKibanaAlertRuleCreate; created is the client's answer to
\* Create(AlertRuleCreateParams(d))
resourceKibanaAlertRuleCreate(d_, created, get) ==
    IF deflateActions(d_.actions).err THEN LocalFailed(d_, <<>>)
    ELSE IF created.err # NoErr THEN CallFailed(d_, "Create", created.err, d_.id)
    ELSE After(Call("Create", ""),
               resourceKibanaAlertRuleRead([d_ EXCEPT !.id = created.obj.ID], get))

\* Update calling Enable or Disable whether or not enabled has changed
resourceKibanaAlertRuleUpdateAlwaysToggle(d_, hasChange, updated, toggled, get) ==
    IF deflateActions(d_.actions).err THEN LocalFailed(d_, <<>>)
    ELSE IF updated.err # NoErr THEN CallFailed(d_, "Update", updated.err, d_.id)
    ELSE LET call == IF d_.enabled THEN "Enable" ELSE "Disable"
         IN  IF toggled # NoErr
             THEN After(Call("Update", d_.id), CallFailed(d_, call, toggled, d_.id))
             ELSE After(Call("Update", d_.id), After(Call(call, d_.id), resourceKibanaAlertRuleRead(d_, get)))

\* resourceKibanaAlertRuleUpdate; hasChange is d.HasChange("enabled"), updated
\* the client's answer to Update(id, AlertRuleUpdateParams(d)) and toggled its
\* answer to Enable(id) or Disable(id)
resourceKibanaAlertRuleUpdate(d_, hasChange, updated, toggled, get) ==
    IF deflateActions(d_.actions).err THEN LocalFailed(d_, <<>>)
    ELSE IF updated.err # NoErr THEN CallFailed(d_, "Update", updated.err, d_.id)
    ELSE IF hasChange
    THEN LET call == IF d_.enabled THEN "Enable" ELSE "Disable"
         IN  IF toggled # NoErr
             THEN After(Call("Update", d_.id), CallFailed(d_, call, toggled, d_.id))
             ELSE After(Call("Update", d_.id), After(Call(call, d_.id), resourceKibanaAlertRuleRead(d_, get)))
    ELSE After(Call("Update", d_.id), resourceKibanaAlertRuleRead(d_, get))

\* resourceKibanaAlertRuleDelete; err is the client's answer to Delete.
\* err.(kbapi.APIError) panics on an error of another type.
resourceKibanaAlertRuleDelete(d_, err) ==
    IF err # NoErr
    THEN IF err.type # "APIError"
         THEN Outcome(d_, "panic", NoErr, <<Call("Delete", d_.id)>>, "Delete", err, d_.id)
         ELSE IF err.code = 404
         THEN Outcome([d_ EXCEPT !.id = ""], "ok", NoErr, <<Call("Delete", d_.id)>>, "Delete", err, d_.id)
         ELSE CallFailed(d_, "Delete", err, d_.id)
    ELSE Done([d_ EXCEPT !.id = ""], <<Call("Delete", d_.id)>>)

-----------------------------------------------------------------------------
(* The alert rule resource, earlier revision (src/unnamed/part_000) *)

\* the create parameters of the earlier revision: tags and schedule are fixed
AlertRuleCreateParams_part000(d_) ==
    [Name |-> d_.name, Consumer |-> d_.consumer, Throttle |-> d_.throttle,
     RuleTypeID |-> d_.rule_type_id, NotifyWhen |-> d_.notify_when,
     Enabled |-> d_.enabled, Tags |-> <<>>,
     Schedule |-> [Interval |-> "1m"],
     Params |-> d_.params,
     Actions |-> deflateActions(d_.actions).actions]

\* Read writes no field
resourceKibanaAlertRuleRead_part000(d_, get) ==
    LET reply == get[d_.id]
    IN  IF reply.err # NoErr THEN CallFailed(d_, "Get", reply.err, d_.id)
        ELSE IF reply.nil THEN Done([d_ EXCEPT !.id = ""], <<Call("Get", d_.id)>>)
        ELSE Done(d_, <<Call("Get", d_.id)>>)

\* asserted: whether d.Get("params").(kbapi.KibanaAlertRuleParams) and
\* d.Get("actions").([]kbapi.KibanaAlertRuleAction) hold; they panic otherwise
resourceKibanaAlertRuleCreate_part000(d_, asserted, created, get) ==
    IF ~asserted THEN Outcome(d_, "panic", NoErr, <<>>, "", NoErr, "")
    ELSE IF created.err # NoErr THEN CallFailed(d_, "Create", created.err, d_.id)
    ELSE After(Call("Create", ""),
               resourceKibanaAlertRuleRead_part000([d_ EXCEPT !.id = created.obj.ID], get))

\* the remote Update is commented out: Update only reads
resourceKibanaAlertRuleUpdate_part000(d_, get) ==
    resourceKibanaAlertRuleRead_part000(d_, get)

\* the remote Delete is commented out: Delete returns nil
resourceKibanaAlertRuleDelete_part000(d_) == Done(d_, <<>>)

-----------------------------------------------------------------------------
(* The connector types data source *)

flattenEntry(connectorType) ==
    [id |-> connectorType.ID,
     name |-> connectorType.Name,
     enabled |-> connectorType.Enabled,
     enabled_in_config |-> connectorType.EnabledInConfig,
     enabled_in_license |-> connectorType.EnabledInLicense,
     minimum_license_required |-> connectorType.MinimumLicenseRequired,
     supported_feature_ids |-> connectorType.SupportedFeatureIDs]

flattenConnectorTypesEnabledOnly(connectorTypes) ==
    IF ~connectorTypes.nil
    THEN LET on == SelectSeq(connectorTypes.list, LAMBDA ct : ct.Enabled)
         IN  [i \in 1..Len(on) |-> flattenEntry(on[i])]
    ELSE <<>>

\* connectorTypes is a pointer: nil, or the list it points to
flattenConnectorTypes(connectorTypes) ==
    IF ~connectorTypes.nil
    THEN [i \in 1..Len(connectorTypes.list) |-> flattenEntry(connectorTypes.list[i])]
    ELSE <<>>

\* dataSourceKibanaConnectorTypesRead on a ResourceData d, the List call
\* answering (reply, listErr) and d.Set answering setErr
dataSourceKibanaConnectorTypesRead(d_, reply, listErr, setErr) ==
    IF listErr THEN [d_ EXCEPT !.diags = "error"]
    ELSE IF setErr THEN [d_ EXCEPT !.diags = "error"]
    ELSE [id |-> "0",
          connector_types |-> flattenConnectorTypes([nil |-> FALSE, list |-> reply]),
          diags |-> "ok"]

-----------------------------------------------------------------------------
(* The diff suppressor *)

DeepEqualAnyOrder(x, y) ==
    IF x.k = "arr" /\ y.k = "arr"
    THEN {x.a[i] : i \in DOMAIN x.a} = {y.a[i] : i \in DOMAIN y.a} /\ Len(x.a) = Len(y.a)
    ELSE x = y

\* reflect.DeepEqual on two decoded values
DeepEqual(x, y) == x = y

rawJsonEqualBytes(old, new) == old = new

rawJsonEqualNoErrCheck(old, new) ==
    old = new \/ DeepEqual(Unmarshal(old).val, Unmarshal(new).val)

rawJsonEqual(old, new) ==
    IF Unmarshal(old).err THEN FALSE
    ELSE IF Unmarshal(new).err THEN FALSE
    ELSE DeepEqual(Unmarshal(old).val, Unmarshal(new).val)

-----------------------------------------------------------------------------
(* JSON documents the inputs are written from.  A document is given as a    *)
(* term; Tree is the value it denotes and Write the texts that spell it.    *)
(* Neither uses the decoder above.                                          *)

GNum(chars, m, e) == [k |-> "num", txt |-> chars, n |-> <<m, e>>, keys |-> <<>>, c |-> <<>>]
GStr(cs) == [k |-> "str", txt |-> cs, n |-> <<0, 0>>, keys |-> <<>>, c |-> <<>>]
GLit(w) == [k |-> w, txt |-> <<>>, n |-> <<0, 0>>, keys |-> <<>>, c |-> <<>>]
GArr(es) == [k |-> "arr", txt |-> <<>>, n |-> <<0, 0>>, keys |-> <<>>, c |-> es]
GObj(ks, es) == [k |-> "obj", txt |-> <<>>, n |-> <<0, 0>>, keys |-> ks, c |-> es]

Reverse(s) == [i \in 1..Len(s) |-> s[Len(s) + 1 - i]]

\* the order in which a writer lists the children of a term
InOrder(s, rev) == IF rev THEN Reverse(s) ELSE s

RECURSIVE Tree(_, _), TreeMembers(_, _, _, _)
Tree(g, rev) ==
    CASE g.k = "num" -> VNum(g.n[1], g.n[2])
      [] g.k = "str" -> VStr(g.txt)
      [] g.k = "true" -> VBool(TRUE)
      [] g.k = "false" -> VBool(FALSE)
      [] g.k = "null" -> VNull
      [] g.k = "arr" -> VArr([i \in 1..Len(g.c) |-> Tree(g.c[i], rev)])
      [] g.k = "obj" -> VObj(TreeMembers(InOrder(g.keys, rev), InOrder(g.c, rev), rev, Len(g.c)))

\* the entries of an object whose first n members are ks[i] : es[i]; when a
\* key is repeated the member written last is the one that counts
TreeMembers(ks, es, rev, n) ==
    IF n = 0 THEN {}
    ELSE {p \in TreeMembers(ks, es, rev, n - 1) : p[1] # ks[n]}
            \cup {<<ks[n], Tree(es[n], rev)>>}

RECURSIVE Write(_, _, _), WriteElems(_, _, _, _), WriteMembers(_, _, _, _, _)
\* the text of g, with the whitespace sp around every structural character
\* and, with rev, the members of every object in reverse order
Write(g, sp, rev) ==
    CASE g.k = "num" -> g.txt
      [] g.k = "str" -> <<Q>> \o g.txt \o <<Q>>
      [] g.k = "true" -> <<"t", "r", "u", "e">>
      [] g.k = "false" -> <<"f", "a", "l", "s", "e">>
      [] g.k = "null" -> <<"n", "u", "l", "l">>
      [] g.k = "arr" -> <<"[">> \o sp \o WriteElems(g.c, 1, sp, rev) \o <<"]">>
      [] g.k = "obj" -> <<"{">> \o sp
                          \o WriteMembers(InOrder(g.keys, rev), InOrder(g.c, rev), 1, sp, rev)
                          \o <<"}">>

WriteElems(es, i, sp, rev) ==
    IF i > Len(es) THEN <<>>
    ELSE Write(es[i], sp, rev) \o sp
            \o (IF i < Len(es) THEN <<",">> \o sp ELSE <<>>)
            \o WriteElems(es, i + 1, sp, rev)

WriteMembers(ks, es, i, sp, rev) ==
    IF i > Len(es) THEN <<>>
    ELSE <<Q>> \o ks[i] \o <<Q>> \o sp \o <<":">> \o sp \o Write(es[i], sp, rev) \o sp
            \o (IF i < Len(es) THEN <<",">> \o sp ELSE <<>>)
            \o WriteMembers(ks, es, i + 1, sp, rev)

One == GNum(<<"1">>, 1, 0)
Two == GNum(<<"2">>, 2, 0)

Docs ==
    << GObj(<<>>, <<>>),                                      \* {}
       GObj(<< <<"a">>, <<"b">> >>, <<One, Two>>),            \* {"a":1,"b":2}
       GObj(<< <<"a">>, <<"b">> >>, <<Two, One>>),            \* {"a":2,"b":1}
       GObj(<< <<"a">> >>, <<One>>),                          \* {"a":1}
       GObj(<< <<"x">> >>, <<One>>),                          \* {"x":1}
       GObj(<< <<"a">>, <<"a">> >>, <<Two, One>>),            \* {"a":2,"a":1}
       GArr(<<>>),                                            \* []
       GArr(<<One, Two>>),                                    \* [1,2]
       GArr(<<Two, One>>),                                    \* [2,1]
       GArr(<<One>>),                                         \* [1]
       GArr(<<One, One>>),                                    \* [1,1]
       One,                                                   \* 1
       GNum(<<"1", ".", "0">>, 1, 0),                         \* 1.0
       GNum(<<"1", "0">>, 10, 0),                             \* 10
       GNum(<<"1", ".", "5", "0">>, 15, 1),                   \* 1.50
       GNum(<<"0">>, 0, 0),                                   \* 0
       GStr(<<"a">>),                                         \* "a"
       GStr(<<"1">>),                                         \* "1"
       GStr(<<"a", " ", "b">>),                               \* "a b"
       GStr(<<>>),                                            \* ""
       GLit("null"), GLit("true"), GLit("false"),
       GObj(<< <<"a">> >>, << GArr(<<One, Two>>) >>),         \* {"a":[1,2]}
       GObj(<< <<"a">> >>, << GArr(<<Two, One>>) >>),         \* {"a":[2,1]}
       GArr(<< GObj(<< <<"a">>, <<"b">> >>, <<One, Two>>) >>),\* [{"a":1,"b":2}]
       GObj(<< <<"a">>, <<"k">> >>,
            << GObj(<< <<"b">>, <<"c">> >>, <<One, GLit("null")>>), GStr(<<"v">>) >>)
    >>

\* whitespace a writer may put around structural characters
Spacings == {<<>>, <<" ">>, <<"\n", "\t">>, <<"\r">>}

\* texts that are not JSON
Malformed ==
    { <<>>,
      <<" ">>,
      <<"{">>,
      <<"n", "o", "t", " ", "j", "s", "o", "n">>,
      <<"{", Q, "a", Q, ":", "1", ",", "}">>,
      <<"[", "1", ",", "]">>,
      <<"[", "1", " ", "2", "]">>,
      <<"0", "1">>,
      <<"1", ".">>,
      <<"1", " ", "2">>,
      <<"{", "a", ":", "1", "}">>,
      <<"{", Q, "a", Q, " ", "1", "}">>,
      <<"{", Q, "a", Q, ":", "}">>,
      <<"{", "}", "}">>,
      <<"t", "r", "u">>,
      <<Q, "a">>,
      <<Q, "a", "\n", Q>> }

NoDoc == [valid |-> FALSE, tree |-> VNull]
DocOf(g, rev) == [valid |-> TRUE, tree |-> Tree(g, rev)]

\* <<text, document>> pairs an input is drawn from
Inputs ==
    {<<Write(Docs[i], sp, rev), DocOf(Docs[i], rev)>> :
        i \in DOMAIN Docs, sp \in Spacings, rev \in BOOLEAN}
    \cup {<<sp \o Write(Docs[i], <<>>, FALSE) \o sp, DocOf(Docs[i], FALSE)>> :
        i \in DOMAIN Docs, sp \in Spacings}
    \cup {<<t, NoDoc>> : t \in Malformed}

-----------------------------------------------------------------------------
(* The diff suppressor applied to a pair of texts *)

\* the variables of the parts a behaviour does not exercise
IdleJson ==
    /\ oldValue = <<>> /\ newValue = <<>>
    /\ oldDoc = NoDoc /\ newDoc = NoDoc
    /\ suppress = FALSE

IdleActions ==
    /\ actionArray = <<>> /\ paramDocs = <<>>
    /\ apiActions = [actions |-> <<>>, err |-> FALSE]
    /\ flattened = [res |-> <<>>, err |-> FALSE]

IdleTypes ==
    /\ typesReply = [nil |-> TRUE, list |-> <<>>]
    /\ types = <<>>
    /\ ds = [id |-> "", connector_types |-> <<>>, diags |-> "none"]

\* no request body sent
NoSent == [none |-> TRUE]

NoGiven == [rule_type_id |-> "", consumer |-> ""]

NoLast ==
    [op |-> "none", diags |-> "ok", err |-> NoErr, calls |-> <<>>, failed |-> "",
     callErr |-> NoErr, idAtCall |-> "", idBefore |-> "", wrote |-> "",
     sent |-> NoSent, plan |-> [id |-> ""], hadEnabled |-> FALSE]

IdleConc ==
    /\ inst = <<>>
    /\ service = <<>>
    /\ alone = <<>>
    /\ lastSetId = ""

IdleCrud ==
    /\ kind = "none"
    /\ d = [id |-> ""]
    /\ remote = [present |-> FALSE]
    /\ last = NoLast
    /\ given = NoGiven

InitJson ==
    /\ mode = "json"
    /\ pc = "start"
    /\ \E a \in Inputs, b \in Inputs :
        /\ oldValue = a[1] /\ oldDoc = a[2]
        /\ newValue = b[1] /\ newDoc = b[2]
    /\ suppress = FALSE
    /\ IdleActions /\ IdleTypes /\ IdleCrud /\ IdleConc

RawJsonEqualStep ==
    /\ mode = "json" /\ pc = "start"
    /\ suppress' = rawJsonEqual(oldValue, newValue)
    /\ pc' = "done"
    /\ UNCHANGED <<mode, oldValue, newValue, oldDoc, newDoc, actionVars, typeVars, crudVars, concVars>>

NextJson == RawJsonEqualStep

SpecJson == InitJson /\ [][NextJson]_vars

\* C2: two valid JSON texts that spell the same tree (whatever the order of
\* the keys and the whitespace) are reported equal
C2_SameTreeSuppressed ==
    (pc = "done" /\ oldDoc.valid /\ newDoc.valid /\ oldDoc.tree = newDoc.tree)
        => suppress = TRUE

C2_Witness ==
    /\ pc = "done" /\ oldDoc.valid /\ newDoc.valid
    /\ oldDoc.tree = newDoc.tree /\ oldDoc.tree.k = "obj"
    /\ Cardinality(oldDoc.tree.o) = 2
    /\ oldValue # newValue /\ Len(oldValue) = Len(newValue)
    /\ suppress = TRUE

\* C3: two valid JSON texts whose trees differ, two arrays that hold the same
\* elements in another order included, are reported different
C3_DifferentTreeNotSuppressed ==
    (pc = "done" /\ oldDoc.valid /\ newDoc.valid /\ oldDoc.tree # newDoc.tree)
        => suppress = FALSE

C3_Witness ==
    /\ pc = "done" /\ oldDoc.valid /\ newDoc.valid
    /\ oldDoc.tree.k = "arr" /\ newDoc.tree.k = "arr"
    /\ oldDoc.tree # newDoc.tree
    /\ {oldDoc.tree.a[i] : i \in DOMAIN oldDoc.tree.a} = {newDoc.tree.a[i] : i \in DOMAIN newDoc.tree.a}
    /\ Len(oldDoc.tree.a) = Len(newDoc.tree.a)
    /\ suppress = FALSE

\* C4: when the old or the new text is not valid JSON the texts are reported
\* different, also when they are the same bytes
C4_InvalidNotSuppressed ==
    (pc = "done" /\ (~oldDoc.valid \/ ~newDoc.valid)) => suppress = FALSE

C4_Witness ==
    /\ pc = "done" /\ ~oldDoc.valid /\ oldValue = newValue /\ Len(oldValue) > 0
    /\ suppress = FALSE

-----------------------------------------------------------------------------
(* deflateActions, then flattenActions, applied to a list of flat records *)

MaxActions == 2

\* the params an action record may carry: <<text, document>>
ParamInputs ==
    {<<Write(Docs[i], sp, rev), DocOf(Docs[i], rev)>> :
        i \in {2, 5, 19}, sp \in {<<>>, <<" ">>}, rev \in BOOLEAN}
    \cup {<<t, NoDoc>> : t \in {<<>>, <<"{">>, <<"n", "o", "t", " ", "j", "s", "o", "n">>}}

ActionKeys == {<<"a1", "default">>, <<"a2", "critical">>}

SeqsUpTo(S, n) == UNION {[1..m -> S] : m \in 0..n}

InitActions ==
    /\ mode = "actions"
    /\ pc = "start"
    /\ \E l \in SeqsUpTo(ActionKeys \X ParamInputs, MaxActions) :
        /\ actionArray = [i \in 1..Len(l) |->
                            [id |-> l[i][1][1], group |-> l[i][1][2], params |-> l[i][2][1]]]
        /\ paramDocs = [i \in 1..Len(l) |-> l[i][2][2]]
    /\ apiActions = [actions |-> <<>>, err |-> FALSE]
    /\ flattened = [res |-> <<>>, err |-> FALSE]
    /\ IdleJson /\ IdleTypes /\ IdleCrud /\ IdleConc

DeflateStep ==
    /\ mode = "actions" /\ pc = "start"
    /\ apiActions' = deflateActions(actionArray)
    /\ pc' = "deflated"
    /\ UNCHANGED <<mode, actionArray, paramDocs, flattened, jsonVars, typeVars, crudVars, concVars>>

FlattenStep ==
    /\ mode = "actions" /\ pc = "deflated"
    /\ ~apiActions.err
    /\ flattened' = flattenActions(apiActions.actions)
    /\ pc' = "done"
    /\ UNCHANGED <<mode, actionArray, paramDocs, apiActions, jsonVars, typeVars, crudVars, concVars>>

NextActions == DeflateStep \/ FlattenStep

SpecActions == InitActions /\ [][NextActions]_vars

AllParamsValid == \A i \in DOMAIN paramDocs : paramDocs[i].valid

\* C1: on records whose params are JSON texts, flattenActions(deflateActions(records))
\* succeeds and returns as many records, each with the id and the group of the
\* record at its position and with params that decode to the same JSON value
C1_RoundTrip ==
    (mode = "actions" /\ pc = "done" /\ AllParamsValid) =>
        /\ ~flattened.err
        /\ Len(flattened.res) = Len(actionArray)
        /\ \A i \in DOMAIN actionArray :
            /\ flattened.res[i].id = actionArray[i].id
            /\ flattened.res[i].group = actionArray[i].group
            /\ ~Unmarshal(flattened.res[i].params).err
            /\ Unmarshal(flattened.res[i].params).val = paramDocs[i].tree

C1_Witness ==
    /\ mode = "actions" /\ pc = "done" /\ AllParamsValid
    /\ Len(actionArray) = 2
    /\ actionArray[1].id # actionArray[2].id
    /\ flattened.res[1].params # actionArray[1].params
    /\ flattened.res[2].params = actionArray[2].params

\* C9: deflateActions returns no error and one action per record, in order,
\* with the record's id, group and exact params bytes, malformed or not
C9_DeflateExact ==
    (mode = "actions" /\ pc # "start") =>
        /\ ~apiActions.err
        /\ Len(apiActions.actions) = Len(actionArray)
        /\ \A i \in DOMAIN actionArray :
            /\ apiActions.actions[i].Id = actionArray[i].id
            /\ apiActions.actions[i].Group = actionArray[i].group
            /\ apiActions.actions[i].Params = actionArray[i].params

C9_Witness ==
    /\ mode = "actions" /\ pc = "deflated"
    /\ Len(actionArray) = 2
    /\ ~paramDocs[1].valid /\ paramDocs[2].valid
    /\ apiActions.actions[1].Params = actionArray[1].params
    /\ Len(actionArray[1].params) > 0
    /\ Len(CompactFrom(actionArray[2].params, 1, FALSE)) < Len(actionArray[2].params)

-----------------------------------------------------------------------------
(* The connector types data source applied to a List reply *)

MaxTypes == 2

\* kbapi.KibanaConnectorType values a reply may hold
ConnectorTypeValues ==
    {[ID |-> id, Name |-> nm, Enabled |-> en, EnabledInConfig |-> TRUE,
      EnabledInLicense |-> lic, MinimumLicenseRequired |-> IF lic THEN "basic" ELSE "gold",
      SupportedFeatureIDs |-> IF en THEN <<"alerting", "uptime">> ELSE <<>>] :
        id \in {".email", ".slack"}, nm \in {"Email"}, en \in BOOLEAN, lic \in BOOLEAN}

InitTypes ==
    /\ mode = "types"
    /\ pc = "start"
    /\ \/ typesReply = [nil |-> TRUE, list |-> <<>>]
       \/ \E l \in SeqsUpTo(ConnectorTypeValues, MaxTypes) :
            typesReply = [nil |-> FALSE, list |-> l]
    /\ types = <<>>
    /\ ds = [id |-> "", connector_types |-> <<>>, diags |-> "none"]
    /\ IdleJson /\ IdleActions /\ IdleCrud /\ IdleConc

FlattenConnectorTypesStep ==
    /\ mode = "types" /\ pc = "start"
    /\ types' = flattenConnectorTypes(typesReply)
    /\ pc' = "flattened"
    /\ UNCHANGED <<mode, typesReply, ds, jsonVars, actionVars, crudVars, concVars>>

\* the host reads the data source; typesReply is what List answers
ConnectorTypesRead ==
    /\ mode = "types" /\ pc = "start"
    /\ ~typesReply.nil
    /\ \E listErr \in BOOLEAN, setErr \in BOOLEAN :
        ds' = dataSourceKibanaConnectorTypesRead(ds, typesReply.list, listErr, setErr)
    /\ pc' = "read"
    /\ UNCHANGED <<mode, typesReply, types, jsonVars, actionVars, crudVars, concVars>>

NextTypes == FlattenConnectorTypesStep \/ ConnectorTypesRead

SpecTypes == InitTypes /\ [][NextTypes]_vars

\* the entry at position i carries the seven fields of reply element i
OneToOne(out, reply) ==
    /\ Len(out) = Len(reply)
    /\ \A i \in DOMAIN reply :
        /\ out[i].id = reply[i].ID
        /\ out[i].name = reply[i].Name
        /\ out[i].enabled = reply[i].Enabled
        /\ out[i].enabled_in_config = reply[i].EnabledInConfig
        /\ out[i].enabled_in_license = reply[i].EnabledInLicense
        /\ out[i].minimum_license_required = reply[i].MinimumLicenseRequired
        /\ out[i].supported_feature_ids = reply[i].SupportedFeatureIDs

\* C10: flattenConnectorTypes returns one entry per element of the reply, in
\* order and with its seven fields, none filtered out or added; nil gives an
\* empty list; the data source stores that list
C10_TypesOneToOne ==
    /\ (mode = "types" /\ pc = "flattened") =>
            IF typesReply.nil THEN types = <<>> ELSE OneToOne(types, typesReply.list)
    /\ (mode = "types" /\ pc = "read" /\ ds.diags = "ok") =>
            OneToOne(ds.connector_types, typesReply.list)

C10_Witness ==
    /\ mode = "types" /\ pc = "flattened" /\ ~typesReply.nil
    /\ Len(typesReply.list) = 2 /\ Len(types) = 2
    /\ ~typesReply.list[1].Enabled /\ typesReply.list[2].Enabled
    /\ types[1].id # types[2].id

-----------------------------------------------------------------------------
(* The resource handlers run by the host against the remote service *)

Ids == {"id1"}
LocalIds == Ids \cup {""}

\* the errors a remote call may answer with whatever the remote side holds
Faults == {APIError(500), OtherError}

\* which remote call of an invocation fails, if any, and how
FaultPlans(n) == {[at |-> 0, err |-> NoErr]} \cup [at : 1..n, err : Faults]
FaultAt(fp, k) == IF fp.at = k THEN fp.err ELSE NoErr

Names == {"n1", "n2"}

\* connector config: a map of strings, or (nested) one holding a value that
\* is not a string, which only the remote side can produce
Configs == {[host |-> "h1", nested |-> FALSE], [host |-> "h2", nested |-> FALSE]}
SecretValues == {[token |-> "s1"], [token |-> "s2"]}

ZeroConnector ==
    [ID |-> "", Name |-> "", ConnectorTypeID |-> "", IsPreconfigured |-> FALSE,
     IsDeprecated |-> FALSE, IsMissingSecrets |-> FALSE, ReferencedByCount |-> 0,
     Config |-> [host |-> "", nested |-> FALSE], Secrets |-> [token |-> ""]]

EmptyConnectorData ==
    [id |-> "", name |-> "", connector_type_id |-> "", is_preconfigured |-> FALSE,
     is_deprecated |-> FALSE, is_missing_secrets |-> FALSE, referenced_by_count |-> 0,
     config |-> [host |-> "", nested |-> FALSE], secrets |-> [token |-> ""]]

\* what the service computes for a connector it stores
ServerFlags == {[dep |-> FALSE, refs |-> 0], [dep |-> TRUE, refs |-> 1]}

ConnectorPlans ==
    [name : Names, connector_type_id : {".email"}, config : Configs, secrets : SecretValues]

\* the params and actions a configuration may give an alert rule
X1 == <<"{", Q, "x", Q, ":", "1", "}">>
X1Spaced == <<"{", " ", Q, "x", Q, " ", ":", " ", "1", " ", "}">>
X2Spaced == <<"{", Q, "x", Q, ":", " ", "2", "}">>
Broken == <<"{">>

ParamTexts == {X1Spaced, Broken}

ActionLists ==
    { <<>>,
      <<[id |-> "a1", group |-> "default",
         params |-> <<"{", Q, "m", Q, ":", " ", Q, "a", " ", "b", Q, "}">>]>> }

RuleNames == {"r1"}
RuleTypeIDs == {".index-threshold", ".es-query"}
Consumers == {"alerts"}

ZeroAlertRule ==
    [ID |-> "", Name |-> "", Tags |-> <<>>, Consumer |-> "", Enabled |-> FALSE,
     RuleTypeID |-> "", Schedule |-> [Interval |-> ""], Throttle |-> "",
     NotifyWhen |-> "", Params |-> <<>>, Actions |-> <<>>]

EmptyAlertRuleData ==
    [id |-> "", name |-> "", tags |-> <<>>, rule_type_id |-> "",
     schedule |-> [interval |-> ""], throttle |-> "", notify_when |-> "",
     enabled |-> TRUE, consumer |-> "", params |-> <<>>, actions |-> <<>>]

AlertRulePlans ==
    [name : RuleNames, tags : {<<"t1">>}, rule_type_id : RuleTypeIDs,
     schedule : {[interval |-> "5m"]}, throttle : {"1h"},
     notify_when : {"onActiveAlert"}, enabled : BOOLEAN, consumer : Consumers,
     params : ParamTexts, actions : ActionLists]

Kinds == {"connector", "alert_rule", "alert_rule_part000"}

Absent == [present |-> FALSE, obj |-> IF kind = "connector" THEN ZeroConnector ELSE ZeroAlertRule]

Holds(r, id) == r.present /\ r.obj.ID = id

\* what somebody else may have done to the remote object r
Interfere(r) ==
    {r, Absent}
    \cup (IF ~r.present THEN {}
          ELSE IF kind = "connector"
          THEN {[r EXCEPT !.obj.Name = "renamed"],
                [r EXCEPT !.obj.Config.nested = TRUE],
                [r EXCEPT !.obj.Secrets = [token |-> "rotated"]]}
          ELSE {[r EXCEPT !.obj.Name = "renamed"],
                [r EXCEPT !.obj.Params = X2Spaced]})

\* the remote side when the handler's Get is served, if it gets that far
BeforeGet(reached, r) == IF reached THEN Interfere(r) ELSE {r}

\* the client's Get(id): (nil, err), (nil, nil) on 404, (object, nil)
ClientGet(r, id, fault) ==
    IF fault # NoErr THEN [err |-> fault, nil |-> TRUE, obj |-> r.obj]
    ELSE IF Holds(r, id) THEN [err |-> NoErr, nil |-> FALSE, obj |-> r.obj]
    ELSE [err |-> NoErr, nil |-> TRUE, obj |-> r.obj]

\* the client's Delete(id): an APIError with code 404 when nothing is there
ClientDelete(r, id, fault) ==
    IF fault # NoErr THEN fault
    ELSE IF Holds(r, id) THEN NoErr
    ELSE APIError(404)

\* the request body cannot be serialized when a RawMessage in it is not JSON
Serializable(params) ==
    /\ Valid(params.Params)
    /\ \A i \in DOMAIN params.Actions : Valid(params.Actions[i].Params)

StoredActions(actions) ==
    [i \in DOMAIN actions |-> [actions[i] EXCEPT !.Params = CompactFrom(@, 1, FALSE)]]

\* the client's Create for a connector
ClientCreateConnector(params, fault, newId, srv) ==
    IF fault # NoErr THEN [err |-> fault, obj |-> ZeroConnector]
    ELSE [err |-> NoErr,
          obj |-> [ID |-> newId, Name |-> params.Name,
                   ConnectorTypeID |-> params.ConnectorTypeID,
                   IsPreconfigured |-> FALSE, IsDeprecated |-> srv.dep,
                   IsMissingSecrets |-> FALSE, ReferencedByCount |-> srv.refs,
                   Config |-> params.Config, Secrets |-> params.Secrets]]

\* the client's Update(id, params) for a connector
ClientUpdateConnector(r, id, params, fault) ==
    IF fault # NoErr THEN [err |-> fault, obj |-> ZeroConnector]
    ELSE IF ~Holds(r, id) THEN [err |-> APIError(404), obj |-> ZeroConnector]
    ELSE [err |-> NoErr,
          obj |-> [r.obj EXCEPT !.Name = params.Name, !.Config = params.Config,
                                !.Secrets = params.Secrets]]

\* the client's Create for an alert rule
ClientCreateAlertRule(params, fault, newId) ==
    IF ~Serializable(params) THEN [err |-> OtherError, obj |-> ZeroAlertRule]
    ELSE IF fault # NoErr THEN [err |-> fault, obj |-> ZeroAlertRule]
    ELSE [err |-> NoErr,
          obj |-> [ID |-> newId, Name |-> params.Name, Tags |-> params.Tags,
                   Consumer |-> params.Consumer, Enabled |-> params.Enabled,
                   RuleTypeID |-> params.RuleTypeID, Schedule |-> params.Schedule,
                   Throttle |-> params.Throttle, NotifyWhen |-> params.NotifyWhen,
                   Params |-> CompactFrom(params.Params, 1, FALSE),
                   Actions |-> StoredActions(params.Actions)]]

\* the client's Update(id, params) for an alert rule
ClientUpdateAlertRule(r, id, params, fault) ==
    IF ~Serializable(params) THEN [err |-> OtherError, obj |-> ZeroAlertRule]
    ELSE IF fault # NoErr THEN [err |-> fault, obj |-> ZeroAlertRule]
    ELSE IF ~Holds(r, id) THEN [err |-> APIError(404), obj |-> ZeroAlertRule]
    ELSE [err |-> NoErr,
          obj |-> [r.obj EXCEPT !.Name = params.Name, !.Tags = params.Tags,
                                !.Schedule = params.Schedule,
                                !.Throttle = params.Throttle,
                                !.NotifyWhen = params.NotifyWhen,
                                !.Params = CompactFrom(params.Params, 1, FALSE),
                                !.Actions = StoredActions(params.Actions)]]

\* the client's Enable(id) / Disable(id)
ClientToggle(r, id, fault) ==
    IF fault # NoErr THEN fault
    ELSE IF Holds(r, id) THEN NoErr
    ELSE APIError(404)

EmptyData == IF kind = "connector" THEN EmptyConnectorData ELSE EmptyAlertRuleData

Init ==
    /\ mode = "crud"
    /\ pc = "idle"
    /\ kind \in Kinds
    /\ d = EmptyData
    /\ remote = Absent
    /\ last = NoLast
    /\ given = NoGiven
    /\ IdleJson /\ IdleActions /\ IdleTypes /\ IdleConc

\* the identifier in the object a successful Create or Update call returned
Wrote(reply) == IF reply.err = NoErr THEN reply.obj.ID ELSE ""

\* the handler, called on the ResourceData plan, returned r and left the
\* remote side as r2; sent is the body of its Create or Update request and
\* wrote the identifier that call returned; hadEnabled is the alert rule's
\* enabled field before the call.  The host keeps no state for a ResourceData
\* whose id is empty.
Finish(op, r, r2, wrote, sent, plan) ==
    /\ d' = (IF r.d.id = "" THEN EmptyData ELSE r.d)
    /\ remote' = r2
    /\ last' = [op |-> op, diags |-> r.diags, err |-> r.err, calls |-> r.calls,
                failed |-> r.failed, callErr |-> r.callErr, idAtCall |-> r.idAtCall,
                idBefore |-> d.id, wrote |-> wrote, sent |-> sent, plan |-> plan,
                hadEnabled |-> (kind # "connector" /\ d.enabled)]
    /\ given' = (IF ~r2.present \/ kind = "connector" THEN NoGiven
                 ELSE IF op = "create" /\ wrote # ""
                 THEN [rule_type_id |-> plan.rule_type_id, consumer |-> plan.consumer]
                 ELSE given)
    /\ UNCHANGED <<mode, pc, kind, jsonVars, actionVars, typeVars, concVars>>

Made(r, call) == \E i \in DOMAIN r.calls : r.calls[i][1] = call

\* the remote side after a handler whose last changing call left r1: somebody
\* else may have changed it before the handler's Get
AfterGet(r, r1, r2) == IF Made(r, "Get") THEN r2 ELSE r1

\* the KibanaConnectorCreateParams that Create and Update build
ConnectorCreateParams(d_) ==
    [Name |-> d_.name, ConnectorTypeID |-> d_.connector_type_id,
     Config |-> d_.config, Secrets |-> d_.secrets]

ConnectorUpdateParams(d_) ==
    [Name |-> d_.name, Config |-> d_.config, Secrets |-> d_.secrets]

Stored(reply, r) == IF reply.err = NoErr THEN [present |-> TRUE, obj |-> reply.obj] ELSE r

Gets(r, fault) == [id \in LocalIds |-> ClientGet(r, id, fault)]

\* The host creates the resource from a configuration.  In every action the
\* intermediate results are bound by \E over a one-element set, so each is a
\* value computed once.
ConnectorCreate ==
    /\ mode = "crud" /\ kind = "connector" /\ d.id = ""
    /\ \E plan \in ConnectorPlans, fp \in FaultPlans(2), newId \in Ids, srv \in ServerFlags :
       \E d1 \in {[EmptyConnectorData EXCEPT !.name = plan.name,
                                             !.connector_type_id = plan.connector_type_id,
                                             !.config = plan.config,
                                             !.secrets = plan.secrets]} :
       \E sent \in {ConnectorCreateParams(d1)} :
       \E created \in {ClientCreateConnector(sent, FaultAt(fp, 1), newId, srv)} :
       \E r1 \in {Stored(created, remote)} :
       \E r2 \in BeforeGet(created.err = NoErr, r1) :
       \E r \in {resourceKibanaConnectorCreate(d1, created, Gets(r2, FaultAt(fp, 2)))} :
           Finish("create", r, AfterGet(r, r1, r2), Wrote(created), sent, d1)

\* the host refreshes the resource
ConnectorRead ==
    /\ mode = "crud" /\ kind = "connector" /\ d.id # ""
    /\ \E fp \in FaultPlans(1) :
       \E r \in {resourceKibanaConnectorRead(d, Gets(remote, FaultAt(fp, 1)))} :
           Finish("read", r, remote, "", NoSent, d)

\* the host applies a changed configuration
ConnectorUpdate ==
    /\ mode = "crud" /\ kind = "connector" /\ d.id # ""
    /\ \E name \in Names, config \in Configs, secrets \in SecretValues, fp \in FaultPlans(2) :
       \E d1 \in {[d EXCEPT !.name = name, !.config = config, !.secrets = secrets]} :
       \E sent \in {ConnectorUpdateParams(d1)} :
       \E updated \in {ClientUpdateConnector(remote, d1.id, sent, FaultAt(fp, 1))} :
       \E r1 \in {Stored(updated, remote)} :
       \E r2 \in BeforeGet(updated.err = NoErr, r1) :
       \E r \in {resourceKibanaConnectorUpdate(d1, updated, Gets(r2, FaultAt(fp, 2)))} :
           Finish("update", r, AfterGet(r, r1, r2), Wrote(updated), sent, d1)

\* the host destroys the resource
ConnectorDelete ==
    /\ mode = "crud" /\ kind = "connector" /\ d.id # ""
    /\ \E fp \in FaultPlans(1) :
       \E err \in {ClientDelete(remote, d.id, FaultAt(fp, 1))} :
       \E r \in {resourceKibanaConnectorDelete(d, err)} :
           Finish("delete", r, IF err = NoErr THEN Absent ELSE remote, "", NoSent, d)

AlertRuleCreate ==
    /\ mode = "crud" /\ kind = "alert_rule" /\ d.id = ""
    /\ \E plan \in AlertRulePlans, fp \in FaultPlans(2), newId \in Ids :
       \E d1 \in {plan @@ [id |-> ""]} :
       \E sent \in {AlertRuleCreateParams(d1)} :
       \E created \in {ClientCreateAlertRule(sent, FaultAt(fp, 1), newId)} :
       \E r1 \in {Stored(created, remote)} :
       \E r2 \in BeforeGet(created.err = NoErr, r1) :
       \E r \in {resourceKibanaAlertRuleCreate(d1, created, Gets(r2, FaultAt(fp, 2)))} :
           Finish("create", r, AfterGet(r, r1, r2), Wrote(created), sent, d1)

AlertRuleRead ==
    /\ mode = "crud" /\ kind = "alert_rule" /\ d.id # ""
    /\ \E fp \in FaultPlans(1) :
       \E r \in {resourceKibanaAlertRuleRead(d, Gets(remote, FaultAt(fp, 1)))} :
           Finish("read", r, remote, "", NoSent, d)

\* the remote side after Update and then Enable or Disable answered
Toggled(r1, hasChange, updated, toggled, enabled) ==
    IF updated.err = NoErr /\ hasChange /\ toggled = NoErr
    THEN [r1 EXCEPT !.obj.Enabled = enabled] ELSE r1

AlertRuleUpdate ==
    /\ mode = "crud" /\ kind = "alert_rule" /\ d.id # ""
    /\ \E name \in RuleNames, enabled \in BOOLEAN, params \in ParamTexts, actions \in ActionLists,
          fp \in FaultPlans(3) :
       \E d1 \in {[d EXCEPT !.name = name, !.enabled = enabled, !.params = params,
                            !.actions = actions]} :
       \E hasChange \in {d.enabled # enabled} :
       \E sent \in {AlertRuleUpdateParams(d1)} :
       \E updated \in {ClientUpdateAlertRule(remote, d1.id, sent, FaultAt(fp, 1))} :
       \E r1 \in {Stored(updated, remote)} :
       \E toggled \in {ClientToggle(r1, d1.id, FaultAt(fp, 2))} :
       \E r1t \in {Toggled(r1, hasChange, updated, toggled, enabled)} :
       \E r2 \in BeforeGet(updated.err = NoErr /\ (hasChange => toggled = NoErr), r1t) :
       \E r \in {resourceKibanaAlertRuleUpdate(d1, hasChange, updated, toggled, Gets(r2, FaultAt(fp, 3)))} :
           Finish("update", r, AfterGet(r, r1t, r2), Wrote(updated), sent, d1)

AlertRuleDelete ==
    /\ mode = "crud" /\ kind = "alert_rule" /\ d.id # ""
    /\ \E fp \in FaultPlans(1) :
       \E err \in {ClientDelete(remote, d.id, FaultAt(fp, 1))} :
       \E r \in {resourceKibanaAlertRuleDelete(d, err)} :
           Finish("delete", r, IF err = NoErr THEN Absent ELSE remote, "", NoSent, d)

AlertRuleCreate_part000 ==
    /\ mode = "crud" /\ kind = "alert_rule_part000" /\ d.id = ""
    /\ \E plan \in AlertRulePlans, asserted \in BOOLEAN, fp \in FaultPlans(2), newId \in Ids :
       \E d1 \in {plan @@ [id |-> ""]} :
       \E sent \in {IF asserted THEN AlertRuleCreateParams_part000(d1) ELSE NoSent} :
       \E created \in {IF asserted
                       THEN ClientCreateAlertRule(sent, FaultAt(fp, 1), newId)
                       ELSE [err |-> OtherError, obj |-> ZeroAlertRule]} :
       \E r1 \in {Stored(created, remote)} :
       \E r2 \in BeforeGet(created.err = NoErr, r1) :
       \E r \in {resourceKibanaAlertRuleCreate_part000(d1, asserted, created, Gets(r2, FaultAt(fp, 2)))} :
           Finish("create", r, AfterGet(r, r1, r2), Wrote(created), sent, d1)

AlertRuleRead_part000 ==
    /\ mode = "crud" /\ kind = "alert_rule_part000" /\ d.id # ""
    /\ \E fp \in FaultPlans(1) :
       \E r \in {resourceKibanaAlertRuleRead_part000(d, Gets(remote, FaultAt(fp, 1)))} :
           Finish("read", r, remote, "", NoSent, d)

AlertRuleUpdate_part000 ==
    /\ mode = "crud" /\ kind = "alert_rule_part000" /\ d.id # ""
    /\ \E name \in RuleNames, fp \in FaultPlans(1) :
       \E d1 \in {[d EXCEPT !.name = name]} :
       \E r \in {resourceKibanaAlertRuleUpdate_part000(d1, Gets(remote, FaultAt(fp, 1)))} :
           Finish("update", r, remote, "", NoSent, d1)

AlertRuleDelete_part000 ==
    /\ mode = "crud" /\ kind = "alert_rule_part000" /\ d.id # ""
    /\ \E r \in {resourceKibanaAlertRuleDelete_part000(d)} :
           Finish("delete", r, remote, "", NoSent, d)

\* somebody else changes or deletes the remote object
RemoteDrift ==
    /\ mode = "crud"
    /\ \E r2 \in Interfere(remote) \ {remote} :
        /\ remote' = r2
        /\ last' = [NoLast EXCEPT !.op = "drift"]
        /\ given' = (IF r2.present THEN given ELSE NoGiven)
    /\ UNCHANGED <<mode, pc, kind, d, jsonVars, actionVars, typeVars, concVars>>

Next ==
    \/ ConnectorCreate \/ ConnectorRead \/ ConnectorUpdate \/ ConnectorDelete
    \/ AlertRuleCreate \/ AlertRuleRead \/ AlertRuleUpdate \/ AlertRuleDelete
    \/ AlertRuleCreate_part000 \/ AlertRuleRead_part000
    \/ AlertRuleUpdate_part000 \/ AlertRuleDelete_part000
    \/ RemoteDrift

Spec == Init /\ [][Next]_vars

-----------------------------------------------------------------------------
(* Properties of the resource handlers *)

\* the last remote call of the latest invocation
LastCall == last.calls[Len(last.calls)]

\* the latest invocation ended in a Read whose Get was answered, without an
\* error, that there is no such object
GetNotFound ==
    /\ last.calls # <<>>
    /\ LastCall[1] = "Get"
    /\ last.failed # "Get"
    /\ ~Holds(remote, LastCall[2])

\* C5: when the remote service answers the Get of a Read with not-found, the
\* Read handler clears the local identifier and returns no error
C5_ReadNotFoundClearsId ==
    GetNotFound => /\ d.id = ""
                   /\ last.diags = "ok"
                   /\ last.err = NoErr

C5_Witness == last.op = "read" /\ GetNotFound /\ last.idBefore # ""

\* the latest invocation was a Delete whose remote call failed with code 404
DeleteNotFound ==
    /\ last.op = "delete"
    /\ last.failed = "Delete"
    /\ last.callErr = APIError(404)

\* C6: when the remote Delete call fails with code 404, the Delete handler
\* clears the local identifier and returns no error, having made that one call,
\* which is what it does after a successful delete
C6_DeleteNotFoundClearsId ==
    DeleteNotFound => /\ d.id = ""
                      /\ d = EmptyData
                      /\ last.diags = "ok"
                      /\ last.err = NoErr
                      /\ last.calls = <<Call("Delete", last.idBefore)>>

C6_Witness == DeleteNotFound /\ last.idBefore # "" /\ ~remote.present

\* a remote create, get, update or delete call of the latest invocation
\* answered with an error, other than a Delete answering with code 404
RemoteCallFailed ==
    /\ last.failed \in {"Create", "Get", "Update", "Delete"}
    /\ ~(last.failed = "Delete" /\ last.callErr = APIError(404))

\* C7: when a remote create, get, update or delete call fails with an error
\* other than not-found on read/delete, the handler returns that error, the
\* failed call is the last remote call of the invocation, and the local
\* identifier is what it was when the call was made
C7_RemoteErrorReturned ==
    RemoteCallFailed => /\ last.diags = "error"
                        /\ last.err = last.callErr
                        /\ LastCall = Call(last.failed, last.idAtCall)
                        /\ d.id = last.idAtCall

\* the fields Read writes hold what the remote object holds: params is the
\* same JSON value, every action has the same id, group and params value
ReadFieldsMatch ==
    /\ Holds(remote, d.id)
    /\ kind = "connector" =>
        /\ d.name = remote.obj.Name
        /\ d.connector_type_id = remote.obj.ConnectorTypeID
        /\ d.is_preconfigured = remote.obj.IsPreconfigured
        /\ d.is_deprecated = remote.obj.IsDeprecated
        /\ d.is_missing_secrets = remote.obj.IsMissingSecrets
        /\ d.referenced_by_count = remote.obj.ReferencedByCount
        /\ d.config = remote.obj.Config
    /\ kind = "alert_rule" =>
        /\ d.name = remote.obj.Name
        /\ d.tags = remote.obj.Tags
        /\ d.consumer = remote.obj.Consumer
        /\ d.enabled = remote.obj.Enabled
        /\ d.rule_type_id = remote.obj.RuleTypeID
        /\ d.schedule.interval = remote.obj.Schedule.Interval
        /\ d.throttle = remote.obj.Throttle
        /\ d.notify_when = remote.obj.NotifyWhen
        /\ rawJsonEqual(d.params, remote.obj.Params)
        /\ Len(d.actions) = Len(remote.obj.Actions)
        /\ \A i \in DOMAIN d.actions :
            /\ d.actions[i].id = remote.obj.Actions[i].Id
            /\ d.actions[i].group = remote.obj.Actions[i].Group
            /\ rawJsonEqual(d.actions[i].params, remote.obj.Actions[i].Params)

\* the remote Create or Update call of the latest invocation succeeded, and so
\* did the Enable or Disable call after it where there was one
WriteSucceeded ==
    /\ last.op \in {"create", "update"}
    /\ last.wrote # ""
    /\ last.failed \notin {"Enable", "Disable"}

LocalStepFailed ==
    /\ last.calls # <<>>
    /\ LastCall[1] = "Get"
    /\ last.failed # "Get"
    /\ Holds(remote, LastCall[2])
    /\ \/ kind = "connector" /\ remote.obj.Config.nested
       \/ kind = "alert_rule" /\ ~Valid(remote.obj.Params)
       \/ kind = "alert_rule" /\ \E i \in DOMAIN remote.obj.Actions :
                                    ~Valid(remote.obj.Actions[i].Params)

\* an error was raised in the latest invocation, by a remote call or by a
\* local step, other than not-found on read/delete
ErrorRaised ==
    \/ last.failed # "" /\ ~(last.failed = "Delete" /\ last.callErr = APIError(404))
    \/ LocalStepFailed

\* C11: every error raised in a handler by a remote call or by a local step,
\* other than not-found on read/delete, makes the handler return an error
C11_NoErrorSwallowed ==
    ErrorRaised => last.diags = "error" /\ last.err # NoErr

\* C12: the alert rule Update handler sends neither rule_type_id nor consumer,
\* and the remote rule holds the rule_type_id and consumer that were given to
\* the Create that made it, whatever Updates followed
C12_TypeAndConsumerKept ==
    kind # "connector" =>
        /\ (last.op = "update" /\ Made(last, "Update")) =>
               {"RuleTypeID", "Consumer"} \cap DOMAIN last.sent = {}
        /\ remote.present => /\ remote.obj.RuleTypeID = given.rule_type_id
                             /\ remote.obj.Consumer = given.consumer

C12_Witness ==
    /\ kind = "alert_rule"
    /\ last.op = "update"
    /\ last.wrote # ""
    /\ last.diags = "ok"
    /\ remote.present
    /\ remote.obj.RuleTypeID = ".es-query"
    /\ remote.obj.Name = last.plan.name

\* the positions of the Enable and Disable calls of the latest invocation
Toggles == {i \in DOMAIN last.calls : last.calls[i][1] \in {"Enable", "Disable"}}

\* C14: the alert rule Update handler calls Enable or Disable only right after
\* a remote Update that succeeded and only when enabled has changed, Enable
\* when the new value is true and Disable otherwise; after a failed Update it
\* calls neither, and a failed Enable/Disable is returned without a Get
C14_ToggleAfterUpdate ==
    (kind = "alert_rule" /\ last.op = "update") =>
        /\ \A i \in Toggles :
            /\ i = 2
            /\ last.calls[1] = Call("Update", last.idBefore)
            /\ last.failed # "Update"
            /\ last.hadEnabled # last.plan.enabled
            /\ last.calls[i] = Call(IF last.plan.enabled THEN "Enable" ELSE "Disable",
                                    last.idBefore)
        /\ last.failed = "Update" => Toggles = {}
        /\ last.failed \in {"Enable", "Disable"} =>
            /\ last.diags = "error"
            /\ last.err = last.callErr
            /\ ~Made(last, "Get")
            /\ Len(last.calls) = 2

C14_Witness ==
    /\ kind = "alert_rule"
    /\ last.op = "update"
    /\ last.failed = "Enable"
    /\ last.plan.enabled

\* C15: the connector Read leaves the local secrets as they were, whatever the
\* remote service answers; so after a Create or Update that returns without
\* error and with a non-empty identifier the local secrets are the secrets
\* sent in its request, and every later Read that keeps the resource keeps them
C15_SecretsKept ==
    [][kind = "connector" =>
        /\ (last'.op \in {"create", "update"} /\ last'.diags = "ok" /\ d'.id # "") =>
               d'.secrets = last'.sent.Secrets
        /\ (last'.op = "read" /\ d'.id # "") => d'.secrets = d.secrets]_vars

C15_Witness ==
    /\ kind = "connector"
    /\ last.op = "read"
    /\ last.diags = "ok"
    /\ d.id # ""
    /\ Holds(remote, d.id)
    /\ remote.obj.Secrets # d.secrets
    /\ d.name = "renamed"

-----------------------------------------------------------------------------
(* Handlers running concurrently for two distinct resources.  A handler runs *)
(* in steps: its remote Create or Update, the SetId after it, Enable or      *)
(* Disable, the Get of its Read, and the rest of Read; Delete is one remote  *)
(* call and the return.  The steps of the two handlers interleave freely.    *)

Slots == {1, 2}

\* the identifier the service gives the object of resource i
SlotId(i) == IF i = 1 THEN "c1" ELSE "c2"

ConcIds == {SlotId(i) : i \in Slots}
ConcKinds == {"connector", "alert_rule"}
ConcFaults == {NoErr, APIError(500)}

ZeroOf(k) == IF k = "connector" THEN ZeroConnector ELSE ZeroAlertRule
AbsentOf(k) == [present |-> FALSE, obj |-> ZeroOf(k)]
EmptyDataOf(k) == IF k = "connector" THEN EmptyConnectorData ELSE EmptyAlertRuleData

\* what a handler returned: the ResourceData, the diagnostics and the error
Res(o) == [d |-> o.d, diags |-> o.diags, err |-> o.err]

NoOut == [d |-> [id |-> ""], diags |-> "none", err |-> NoErr]

\* a resource of kind k with ResourceData d_ and no handler running.  The
\* handler's local variables: w the answer to Create or Update, t to Enable
\* or Disable, g to Get, e to Delete.  d0 is the ResourceData the handler was
\* called on, out what it returned, and clean whether every answer so far is
\* the answer the resource's handlers alone would have got (ghost).
IdleInst(k, d_) ==
    [kind |-> k, op |-> "none", pc |-> "idle", d |-> d_, d0 |-> d_,
     hasChange |-> FALSE,
     w |-> [err |-> NoErr, obj |-> ZeroOf(k)], t |-> NoErr,
     g |-> [err |-> NoErr, nil |-> TRUE, obj |-> ZeroOf(k)], e |-> NoErr,
     clean |-> TRUE, out |-> NoOut]

\* the configurations the host applies to a resource of kind k
ConcPlans(k) ==
    IF k = "connector"
    THEN {p \in ConnectorPlans : p.config.host = "h1" /\ p.secrets.token = "s1"}
    ELSE {p \in AlertRulePlans : /\ p.rule_type_id = ".es-query"
                                 /\ p.params = X1Spaced
                                 /\ p.actions = <<>>}

\* the ResourceData of a Create or Update of configuration p over d_
Planned(k, d_, p) ==
    IF k = "connector"
    THEN [d_ EXCEPT !.name = p.name, !.connector_type_id = p.connector_type_id,
                    !.config = p.config, !.secrets = p.secrets]
    ELSE p @@ [id |-> d_.id]

FirstStep(op) ==
    CASE op \in {"create", "update"} -> "write"
      [] op = "read" -> "get"
      [] op = "delete" -> "delete"

InitConc ==
    /\ mode = "conc"
    /\ pc = "idle"
    /\ inst \in [Slots -> {IdleInst(k, EmptyDataOf(k)) : k \in ConcKinds}]
    /\ service = [id \in ConcIds |->
                    AbsentOf(inst[CHOOSE i \in Slots : SlotId(i) = id].kind)]
    /\ alone = [i \in Slots |-> AbsentOf(inst[i].kind)]
    /\ lastSetId = ""
    /\ IdleJson /\ IdleActions /\ IdleTypes /\ IdleCrud

\* the remote object with identifier id
At(id) == IF id \in DOMAIN service THEN service[id] ELSE AbsentOf("connector")

\* the handler of s returned o
Returned(s, o) ==
    [s EXCEPT !.pc = "idle", !.out = Res(o),
              !.d = IF o.d.id = "" THEN EmptyDataOf(s.kind) ELSE o.d]

\* the host calls a handler of resource i
ConcStart(i) ==
    /\ mode = "conc" /\ inst[i].pc = "idle"
    /\ \E op \in {"create", "read", "update", "delete"}, p \in ConcPlans(inst[i].kind) :
        /\ (op = "create") = (inst[i].d.id = "")
        /\ \E d1 \in {IF op \in {"create", "update"}
                      THEN Planned(inst[i].kind, inst[i].d, p) ELSE inst[i].d} :
              inst' = [inst EXCEPT ![i] =
                          [IdleInst(inst[i].kind, d1) EXCEPT
                              !.op = op, !.pc = FirstStep(op),
                              !.hasChange = /\ inst[i].kind = "alert_rule"
                                            /\ op = "update"
                                            /\ inst[i].d.enabled # d1.enabled]]
    /\ UNCHANGED <<mode, pc, service, alone, lastSetId, jsonVars, actionVars, typeVars, crudVars>>

\* the client's answer to the Create or Update call of the handler of s, r
\* being the remote object of that identifier and newId the one Create gives
WriteReply(s, r, fault, newId) ==
    IF s.kind = "connector"
    THEN IF s.op = "create"
         THEN ClientCreateConnector(ConnectorCreateParams(s.d), fault, newId,
                                    [dep |-> FALSE, refs |-> 0])
         ELSE ClientUpdateConnector(r, s.d.id, ConnectorUpdateParams(s.d), fault)
    ELSE IF s.op = "create"
         THEN ClientCreateAlertRule(AlertRuleCreateParams(s.d), fault, newId)
         ELSE ClientUpdateAlertRule(r, s.d.id, AlertRuleUpdateParams(s.d), fault)

\* where the handler of s goes after its Create or Update call succeeded
AfterWrite(s) ==
    IF s.kind = "alert_rule" /\ s.op = "update"
    THEN IF s.hasChange THEN "toggle" ELSE "get"
    ELSE "setid"

\* the remote Create or Update call, and the return on its error
ConcWrite(i) ==
    /\ mode = "conc" /\ inst[i].pc = "write"
    /\ \E fault \in ConcFaults :
       \E s \in {inst[i]} :
       \E target \in {IF s.op = "create" THEN SlotId(i) ELSE s.d.id} :
       \E w \in {WriteReply(s, At(target), fault, SlotId(i))} :
       \E wa \in {WriteReply(s, alone[i], fault, SlotId(i))} :
       \E s1 \in {[s EXCEPT !.w = w, !.clean = @ /\ w = wa]} :
           /\ service' = [service EXCEPT ![target] = Stored(w, @)]
           /\ alone' = [alone EXCEPT ![i] = Stored(wa, @)]
           /\ inst' = [inst EXCEPT ![i] =
                          IF w.err # NoErr
                          THEN Returned(s1, CallFailed(s.d, s.op, w.err, s.d.id))
                          ELSE [s1 EXCEPT !.pc = AfterWrite(s)]]
    /\ UNCHANGED <<mode, pc, lastSetId, jsonVars, actionVars, typeVars, crudVars>>

\* d.SetId with the identifier of the object the call returned
ConcSetId(i) ==
    /\ mode = "conc" /\ inst[i].pc = "setid"
    /\ inst' = [inst EXCEPT ![i].d.id = inst[i].w.obj.ID, ![i].pc = "get"]
    /\ lastSetId' = inst[i].w.obj.ID
    /\ UNCHANGED <<mode, pc, service, alone, jsonVars, actionVars, typeVars, crudVars>>

\* the remote object r after Enable or Disable answered err
ToggledTo(r, err, enabled) ==
    IF err = NoErr /\ r.present THEN [r EXCEPT !.obj.Enabled = enabled] ELSE r

\* the remote Enable or Disable call of the alert rule Update, and the return
\* on its error
ConcToggle(i) ==
    /\ mode = "conc" /\ inst[i].pc = "toggle"
    /\ \E fault \in ConcFaults :
       \E s \in {inst[i]} :
       \E t \in {ClientToggle(At(s.d.id), s.d.id, fault)} :
       \E ta \in {ClientToggle(alone[i], s.d.id, fault)} :
       \E s1 \in {[s EXCEPT !.t = t, !.clean = @ /\ t = ta]} :
           /\ service' = [service EXCEPT ![s.d.id] = ToggledTo(@, t, s.d.enabled)]
           /\ alone' = [alone EXCEPT ![i] = ToggledTo(@, ta, s.d.enabled)]
           /\ inst' = [inst EXCEPT ![i] =
                          IF t # NoErr
                          THEN Returned(s1, CallFailed(s.d, IF s.d.enabled THEN "Enable" ELSE "Disable",
                                                       t, s.d.id))
                          ELSE [s1 EXCEPT !.pc = "get"]]
    /\ UNCHANGED <<mode, pc, lastSetId, jsonVars, actionVars, typeVars, crudVars>>

\* the identifier Read asks for, taken from a variable the handlers share
IdForGetShared(i) == lastSetId

\* the identifier Read asks for: id := d.Id()
IdForGet(i) == inst[i].d.id

\* the remote Get call of Read
ConcGet(i) ==
    /\ mode = "conc" /\ inst[i].pc = "get"
    /\ \E fault \in ConcFaults :
       \E s \in {inst[i]} :
       \E id \in {IdForGet(i)} :
       \E g \in {ClientGet(At(id), id, fault)} :
       \E ga \in {ClientGet(alone[i], s.d.id, fault)} :
           inst' = [inst EXCEPT ![i] = [s EXCEPT !.g = g, !.clean = @ /\ g = ga,
                                                 !.pc = "apply"]]
    /\ UNCHANGED <<mode, pc, service, alone, lastSetId, jsonVars, actionVars, typeVars, crudVars>>

\* Get answering g whatever the identifier
GetFn(g) == [id \in ConcIds \cup {""} |-> g]

ReadOf(k, d_, get) ==
    IF k = "connector" THEN resourceKibanaConnectorRead(d_, get)
    ELSE resourceKibanaAlertRuleRead(d_, get)

\* the rest of Read after its Get, and the return
ConcApply(i) ==
    /\ mode = "conc" /\ inst[i].pc = "apply"
    /\ \E s \in {inst[i]} :
       \E o \in {ReadOf(s.kind, s.d, GetFn(s.g))} :
           inst' = [inst EXCEPT ![i] = Returned(s, o)]
    /\ UNCHANGED <<mode, pc, service, alone, lastSetId, jsonVars, actionVars, typeVars, crudVars>>

DeleteOf(k, d_, err) ==
    IF k = "connector" THEN resourceKibanaConnectorDelete(d_, err)
    ELSE resourceKibanaAlertRuleDelete(d_, err)

\* the remote Delete call, and the return
ConcDelete(i) ==
    /\ mode = "conc" /\ inst[i].pc = "delete"
    /\ \E fault \in ConcFaults :
       \E s \in {inst[i]} :
       \E e \in {ClientDelete(At(s.d.id), s.d.id, fault)} :
       \E ea \in {ClientDelete(alone[i], s.d.id, fault)} :
       \E s1 \in {[s EXCEPT !.e = e, !.clean = @ /\ e = ea]} :
           /\ service' = [service EXCEPT ![s.d.id] = IF e = NoErr THEN AbsentOf(s.kind) ELSE @]
           /\ alone' = [alone EXCEPT ![i] = IF ea = NoErr THEN AbsentOf(s.kind) ELSE @]
           /\ inst' = [inst EXCEPT ![i] = Returned(s1, DeleteOf(s.kind, s.d, e))]
    /\ UNCHANGED <<mode, pc, lastSetId, jsonVars, actionVars, typeVars, crudVars>>

NextConc ==
    \E i \in Slots :
        \/ ConcStart(i) \/ ConcWrite(i) \/ ConcSetId(i) \/ ConcToggle(i)
        \/ ConcGet(i) \/ ConcApply(i) \/ ConcDelete(i)

SpecConc == InitConc /\ [][NextConc]_vars

\* what the handler of s returns when it runs alone, on the ResourceData it
\* was called on and the answers it got
Expected(s) ==
    IF s.kind = "connector"
    THEN CASE s.op = "create" -> resourceKibanaConnectorCreate(s.d0, s.w, GetFn(s.g))
           [] s.op = "read" -> resourceKibanaConnectorRead(s.d0, GetFn(s.g))
           [] s.op = "update" -> resourceKibanaConnectorUpdate(s.d0, s.w, GetFn(s.g))
           [] s.op = "delete" -> resourceKibanaConnectorDelete(s.d0, s.e)
    ELSE CASE s.op = "create" -> resourceKibanaAlertRuleCreate(s.d0, s.w, GetFn(s.g))
           [] s.op = "read" -> resourceKibanaAlertRuleRead(s.d0, GetFn(s.g))
           [] s.op = "update" ->
                  resourceKibanaAlertRuleUpdate(s.d0, s.hasChange, s.w, s.t, GetFn(s.g))
           [] s.op = "delete" -> resourceKibanaAlertRuleDelete(s.d0, s.e)

\* C13: handlers running concurrently for distinct resources do not interfere:
\* under every interleaving of their steps each remote object is what its own
\* resource's handlers alone have made it, every answer a handler gets is the
\* answer it would have got alone, and a handler that has returned has
\* returned, and left in its ResourceData, what it returns when run alone
C13_NoInterference ==
    \A i \in DOMAIN inst :
        /\ service[SlotId(i)] = alone[i]
        /\ inst[i].clean
        /\ (inst[i].pc = "idle" /\ inst[i].op # "none") =>
               /\ inst[i].out = Res(Expected(inst[i]))
               /\ inst[i].d = (IF inst[i].out.d.id = "" THEN EmptyDataOf(inst[i].kind)
                               ELSE inst[i].out.d)

C13_Witness ==
    /\ mode = "conc"
    /\ inst[1].op = "update" /\ inst[1].pc = "apply"
    /\ inst[2].op = "create" /\ inst[2].pc = "get"
    /\ inst[1].d.name # inst[2].d.name
    /\ lastSetId = SlotId(2)

=============================================================================
